---- MODULE Spec2Model ----
(***************************************************************************)
(* Thompson construction and NFA simulation of src/main.rs.                *)
(*                                                                         *)
(* A Regex is a tagged tuple: <<"Empty">>, <<"Single", c>>,                *)
(* <<"Or", r, s>>, <<"Then", r, s>>, <<"Star", r>>.                        *)
(* A Vec is a TLA+ sequence; the Rust index i is position i + 1.           *)
(* A Node is a record [transitions |-> Vec of <<label, target>>] whose     *)
(* label is None (an e-step) or a symbol, and whose target is a Rust       *)
(* (0-based) index.  A HashSet is a TLA+ set.                              *)
(***************************************************************************)
EXTENDS Integers, Sequences, FiniteSets, TLC

\* ------------------------------------------------------------------ bounds
MaxSize == 4
MaxLen == 4
FairSize == 3
FairLen == 3
AssocSize == 1
AssocLen == 3
ConcSize == 2
ConcLen == 2
OrdSize == 3
OrdLen == 2
BuildSize == 5

Alphabet == {"a", "b"}
None == "None"
Callers == {1, 2}

\* ------------------------------------------------------------------ inputs
RECURSIVE RegexOfSize(_)
RegexOfSize(n) ==
    IF n <= 0 THEN {}
    ELSE IF n = 1 THEN {<<"Empty">>} \cup {<<"Single", c>> : c \in Alphabet}
    ELSE {<<"Star", r>> : r \in RegexOfSize(n - 1)}
         \cup UNION {{<<"Or", r, s>> : r \in RegexOfSize(k), s \in RegexOfSize(n - 1 - k)}
                     : k \in 1..(n - 2)}
         \cup UNION {{<<"Then", r, s>> : r \in RegexOfSize(k), s \in RegexOfSize(n - 1 - k)}
                     : k \in 1..(n - 2)}

RegexUpTo(n) == UNION {RegexOfSize(k) : k \in 1..n}

SeqsUpTo(n) == UNION {[1..k -> Alphabet] : k \in 0..n}

\* ------------------------------------------------------------------ Regex
Regex_or(self, s) == <<"Or", self, s>>

Regex_then(self, s) == <<"Then", self, s>>

Regex_star(self) == <<"Star", self>>

\* -------------------------------------------------------------------- Node
Node_new(ts) == [transitions |-> ts]

TargetsOf(ts) == [j \in 1..Len(ts) |-> ts[j][2]]

neighbours(node, a) ==
    TargetsOf(SelectSeq(node.transitions, LAMBDA t : t[1] = a))

VecSet(v) == {v[j] : j \in 1..Len(v)}

\* --------------------------------------------------------------------- NFA
empty ==
    [nodes |-> <<Node_new(<<<<None, 1>>>>), Node_new(<<>>)>>,
     start_idx |-> 0,
     final_idx |-> 1]

\* single with the label of empty: an e-step instead of the symbol.
single_estep(a) ==
    [nodes |-> <<Node_new(<<<<None, 1>>>>), Node_new(<<>>)>>,
     start_idx |-> 0,
     final_idx |-> 1]

\* single with its two nodes in the other order: the start is index 1.
single_reversed(a) ==
    [nodes |-> <<Node_new(<<>>), Node_new(<<<<a, 0>>>>)>>,
     start_idx |-> 1,
     final_idx |-> 0]

single(a) ==
    [nodes |-> <<Node_new(<<<<a, 1>>>>), Node_new(<<>>)>>,
     start_idx |-> 0,
     final_idx |-> 1]

\* embed that adds the offset to the targets of final_trans as well.
embed_offsets_final(nodes, sub, offset, final_trans) ==
    [k \in 1..Len(nodes) |->
        IF k - 1 >= offset /\ k - 1 < offset + Len(sub.nodes)
        THEN LET i == k - 1 - offset
                 n == sub.nodes[i + 1]
                 m == [j \in 1..Len(n.transitions) |->
                          <<n.transitions[j][1], n.transitions[j][2] + offset>>]
             IN  IF i = sub.final_idx
                 THEN Node_new(m \o [j \in 1..Len(final_trans) |->
                                        <<None, final_trans[j] + offset>>])
                 ELSE Node_new(m)
        ELSE nodes[k]]

\* embed that copies the nodes without renumbering their targets.
embed_keeps_targets(nodes, sub, offset, final_trans) ==
    [k \in 1..Len(nodes) |->
        IF k - 1 >= offset /\ k - 1 < offset + Len(sub.nodes)
        THEN LET i == k - 1 - offset
                 n == sub.nodes[i + 1]
             IN  IF i = sub.final_idx
                 THEN Node_new(n.transitions \o
                               [j \in 1..Len(final_trans) |-> <<None, final_trans[j]>>])
                 ELSE Node_new(n.transitions)
        ELSE nodes[k]]

embed(nodes, sub, offset, final_trans) ==
    [k \in 1..Len(nodes) |->
        IF k - 1 >= offset /\ k - 1 < offset + Len(sub.nodes)
        THEN LET i == k - 1 - offset
                 n == sub.nodes[i + 1]
                 m == [j \in 1..Len(n.transitions) |->
                          <<n.transitions[j][1], n.transitions[j][2] + offset>>]
             IN  IF i = sub.final_idx
                 THEN Node_new(m \o [j \in 1..Len(final_trans) |-> <<None, final_trans[j]>>])
                 ELSE Node_new(m)
        ELSE nodes[k]]

\* then with the accepting state of a wired one index short of the start of b.
then_short(a, b) ==
    LET len == Len(a.nodes) + Len(b.nodes) + 2
        start_idx == 0
        final_idx == len - 1
        nodes0 == [k \in 1..len |->
                      IF k - 1 = start_idx THEN Node_new(<<<<None, 1>>>>)
                      ELSE Node_new(<<>>)]
        nodes1 == embed(nodes0, a, 1, <<Len(a.nodes)>>)
        nodes2 == embed(nodes1, b, 1 + Len(a.nodes), <<final_idx>>)
    IN  [nodes |-> nodes2, start_idx |-> start_idx, final_idx |-> final_idx]

\* then with the start node of or: an e-step to the start of b as well.
then_or_start(a, b) ==
    LET len == Len(a.nodes) + Len(b.nodes) + 2
        start_idx == 0
        final_idx == len - 1
        nodes0 == [k \in 1..len |->
                      IF k - 1 = start_idx
                      THEN Node_new(<<<<None, 1>>, <<None, 1 + Len(a.nodes)>>>>)
                      ELSE Node_new(<<>>)]
        nodes1 == embed(nodes0, a, 1, <<Len(a.nodes) + 1>>)
        nodes2 == embed(nodes1, b, 1 + Len(a.nodes), <<final_idx>>)
    IN  [nodes |-> nodes2, start_idx |-> start_idx, final_idx |-> final_idx]

then(a, b) ==
    LET len == Len(a.nodes) + Len(b.nodes) + 2
        start_idx == 0
        final_idx == len - 1
        nodes0 == [k \in 1..len |->
                      IF k - 1 = start_idx THEN Node_new(<<<<None, 1>>>>)
                      ELSE Node_new(<<>>)]
        nodes1 == embed(nodes0, a, 1, <<Len(a.nodes) + 1>>)
        nodes2 == embed(nodes1, b, 1 + Len(a.nodes), <<final_idx>>)
    IN  [nodes |-> nodes2, start_idx |-> start_idx, final_idx |-> final_idx]

\* or with the start node of then: no e-step to the start of b.
or_left_only(a, b) ==
    LET len == Len(a.nodes) + Len(b.nodes) + 2
        start_idx == 0
        final_idx == len - 1
        nodes0 == [k \in 1..len |->
                      IF k - 1 = start_idx THEN Node_new(<<<<None, 1>>>>)
                      ELSE Node_new(<<>>)]
        nodes1 == embed(nodes0, a, 1, <<final_idx>>)
        nodes2 == embed(nodes1, b, 1 + Len(a.nodes), <<final_idx>>)
    IN  [nodes |-> nodes2, start_idx |-> start_idx, final_idx |-> final_idx]

or(a, b) ==
    LET len == Len(a.nodes) + Len(b.nodes) + 2
        start_idx == 0
        final_idx == len - 1
        nodes0 == [k \in 1..len |->
                      IF k - 1 = start_idx
                      THEN Node_new(<<<<None, 1>>, <<None, 1 + Len(a.nodes)>>>>)
                      ELSE Node_new(<<>>)]
        nodes1 == embed(nodes0, a, 1, <<final_idx>>)
        nodes2 == embed(nodes1, b, 1 + Len(a.nodes), <<final_idx>>)
    IN  [nodes |-> nodes2, start_idx |-> start_idx, final_idx |-> final_idx]

\* star without the e-step from the start to the accepting state.
star_no_skip(a) ==
    LET len == Len(a.nodes) + 2
        start_idx == 0
        final_idx == len - 1
        nodes0 == [k \in 1..len |->
                      IF k - 1 = start_idx THEN Node_new(<<<<None, 1>>>>)
                      ELSE Node_new(<<>>)]
        nodes1 == embed(nodes0, a, 1, <<final_idx, 0>>)
    IN  [nodes |-> nodes1, start_idx |-> start_idx, final_idx |-> final_idx]

\* star without the e-step back from the accepting state of a.
star_no_loop(a) ==
    LET len == Len(a.nodes) + 2
        start_idx == 0
        final_idx == len - 1
        nodes0 == [k \in 1..len |->
                      IF k - 1 = start_idx
                      THEN Node_new(<<<<None, 1>>, <<None, final_idx>>>>)
                      ELSE Node_new(<<>>)]
        nodes1 == embed(nodes0, a, 1, <<final_idx>>)
    IN  [nodes |-> nodes1, start_idx |-> start_idx, final_idx |-> final_idx]

\* star whose final_idx is nodes.len() instead of nodes.len() - 1.
star_final_past_end(a) ==
    LET len == Len(a.nodes) + 2
        start_idx == 0
        final_idx == len
        nodes0 == [k \in 1..len |->
                      IF k - 1 = start_idx
                      THEN Node_new(<<<<None, 1>>, <<None, final_idx>>>>)
                      ELSE Node_new(<<>>)]
        nodes1 == embed(nodes0, a, 1, <<final_idx, 0>>)
    IN  [nodes |-> nodes1, start_idx |-> start_idx, final_idx |-> final_idx]

star(a) ==
    LET len == Len(a.nodes) + 2
        start_idx == 0
        final_idx == len - 1
        nodes0 == [k \in 1..len |->
                      IF k - 1 = start_idx
                      THEN Node_new(<<<<None, 1>>, <<None, final_idx>>>>)
                      ELSE Node_new(<<>>)]
        nodes1 == embed(nodes0, a, 1, <<final_idx, 0>>)
    IN  [nodes |-> nodes1, start_idx |-> start_idx, final_idx |-> final_idx]

RECURSIVE from_regex(_)
from_regex(reg) ==
    CASE reg[1] = "Empty" -> empty
      [] reg[1] = "Single" -> single(reg[2])
      [] reg[1] = "Or" -> or(from_regex(reg[2]), from_regex(reg[3]))
      [] reg[1] = "Then" -> then(from_regex(reg[2]), from_regex(reg[3]))
      [] reg[1] = "Star" -> star(from_regex(reg[2]))

\* A lookup self.nodes[s] panics when s is not an index of the Vec.
InRange(n, states) == \A s \in states : s >= 0 /\ s < Len(n.nodes)

step(n, states, a) ==
    UNION {VecSet(neighbours(n.nodes[s + 1], a)) : s \in states}

\* closure_pass that breaks after its first insertion: one e-step only.
closure_pass_once(n, states, size) ==
    LET new_nodes == step(n, states, None)
        grown == states \cup new_nodes
    IN  IF Cardinality(new_nodes) = 0 THEN <<states, size, TRUE>>
        ELSE <<grown, size, TRUE>>

\* One pass of the loop of epsilon_closure: <<states, size, break>>.
closure_pass(n, states, size) ==
    LET new_nodes == step(n, states, None)
        grown == states \cup new_nodes
    IN  IF Cardinality(new_nodes) = 0 THEN <<states, size, TRUE>>
        ELSE IF Cardinality(grown) = size THEN <<grown, size, TRUE>>
        ELSE <<grown, Cardinality(grown), FALSE>>

RECURSIVE closure_loop(_, _, _)
closure_loop(n, states, size) ==
    LET r == closure_pass(n, states, size)
    IN  IF r[3] THEN r[1] ELSE closure_loop(n, r[1], r[2])

epsilon_closure(n, states) == closure_loop(n, states, Cardinality(states))

RECURSIVE accepts_from(_, _, _, _)
accepts_from(n, states, xs, i) ==
    IF i > Len(xs) THEN n.final_idx \in states
    ELSE LET stepped == step(n, states, xs[i])
         IN  IF stepped = {} THEN FALSE
             ELSE accepts_from(n, epsilon_closure(n, stepped), xs, i + 1)

\* The working set of accepts once it has taken all of xs ({} once rejected).
RECURSIVE states_from(_, _, _, _)
states_from(n, states, xs, i) ==
    IF i > Len(xs) THEN states
    ELSE LET stepped == step(n, states, xs[i])
         IN  IF stepped = {} THEN {}
             ELSE states_from(n, epsilon_closure(n, stepped), xs, i + 1)

accepts_states(n, xs) == states_from(n, epsilon_closure(n, {n.start_idx}), xs, 1)

accepts(n, xs) == accepts_from(n, epsilon_closure(n, {n.start_idx}), xs, 1)

\* ------------------------------------------------------------------- state
VARIABLES
    reg,      \* the Regex that was compiled
    nfa,      \* the compiled NFA: nodes, start_idx, final_idx
    xs,       \* per call: the input of accepts
    pc,       \* per call: "idle", "start", "closure", "loop", "done", "panic"
    states,   \* per call: the working HashSet of accepts
    size,     \* per call: the local size of epsilon_closure
    pos,      \* per call: how many symbols the for loop has taken from xs
    result,   \* per call: the value accepts returned
    iters,    \* per call: passes of the loop of the running epsilon_closure
    nstep,    \* per call: calls of step with a symbol so far
    nclos,    \* per call: calls of epsilon_closure so far
    todo,     \* ordered run: states the running step has still to visit
    acc,      \* ordered run: the HashSet the running step is filling
    lbl,      \* ordered run: the label of the running step
    entry,    \* per call: the set the running epsilon_closure was called with
    work,     \* from_regex: the frames still to run, innermost first
    frags,    \* from_regex: the NFAs returned by finished calls, oldest first
    cur,      \* then/or/star being run: op, operands, start_idx, final_idx
    bnodes,   \* then/or/star being run: its local Vec nodes
    calls,    \* then/or/star being run: its calls of embed still to make
    ret       \* the last constructor that returned: op, operands, result

vars ==
    <<reg, nfa, xs, pc, states, size, pos, result, iters, nstep, nclos, todo, acc, lbl,
      entry, work, frags, cur, bnodes, calls, ret>>

bldvars == <<work, frags, cur, bnodes, calls, ret>>

accvars == <<xs, pc, states, size, pos, result, iters, nstep, nclos, todo, acc, lbl, entry>>

NoNFA == [nodes |-> <<>>, start_idx |-> 0, final_idx |-> 0]

NoCall == [op |-> "none", args |-> <<>>, start_idx |-> 0, final_idx |-> 0]

NoReturn == [op |-> "none", args |-> <<>>, out |-> NoNFA]

ordvars == <<todo, acc, lbl>>

InitCalls(regs, inputs, callers) ==
    /\ reg \in regs
    /\ nfa = from_regex(reg)
    /\ xs \in [Callers -> inputs]
    /\ \A c \in Callers \ callers : xs[c] = <<>>
    /\ pc = [c \in Callers |-> IF c \in callers THEN "start" ELSE "idle"]
    /\ states = [c \in Callers |-> {}]
    /\ size = [c \in Callers |-> 0]
    /\ pos = [c \in Callers |-> 0]
    /\ result = [c \in Callers |-> FALSE]
    /\ iters = [c \in Callers |-> 0]
    /\ nstep = [c \in Callers |-> 0]
    /\ nclos = [c \in Callers |-> 0]
    /\ todo = {}
    /\ acc = {}
    /\ lbl = None
    /\ entry = [c \in Callers |-> {}]
    /\ work = <<>>
    /\ frags = <<>>
    /\ cur = NoCall
    /\ bnodes = <<>>
    /\ calls = <<>>
    /\ ret = NoReturn

Init == InitCalls(RegexUpTo(MaxSize), SeqsUpTo(MaxLen), {1})

LeftNested(n) ==
    {Regex_then(Regex_then(a, b), c) : a \in RegexUpTo(n), b \in RegexUpTo(n), c \in RegexUpTo(n)}

InitAssoc == InitCalls(LeftNested(AssocSize), SeqsUpTo(AssocLen), {1})

InitFair == InitCalls(RegexUpTo(FairSize), SeqsUpTo(FairLen), {1})

InitConc == InitCalls(RegexUpTo(ConcSize), SeqsUpTo(ConcLen), Callers)

InitOrd == InitCalls(RegexUpTo(OrdSize), SeqsUpTo(OrdLen), {1})

\* ----------------------------------------------------------------- accepts
\* accepts, up to its first call of epsilon_closure and that call's entry.
Begin(c) ==
    /\ pc[c] = "start"
    /\ states' = [states EXCEPT ![c] = {nfa.start_idx}]
    /\ size' = [size EXCEPT ![c] = 1]
    /\ iters' = [iters EXCEPT ![c] = 0]
    /\ nclos' = [nclos EXCEPT ![c] = @ + 1]
    /\ pc' = [pc EXCEPT ![c] = "closure"]
    /\ entry' = [entry EXCEPT ![c] = {nfa.start_idx}]
    /\ UNCHANGED <<bldvars, reg, nfa, xs, pos, result, nstep, ordvars>>

\* ClosurePass with one working set for all calls instead of one per call.
ClosurePass_shared(c) ==
    /\ pc[c] = "closure"
    /\ IF ~InRange(nfa, states[c])
       THEN /\ pc' = [pc EXCEPT ![c] = "panic"]
            /\ UNCHANGED <<states, size>>
       ELSE LET r == closure_pass(nfa, states[c], size[c])
            IN  /\ states' = [k \in Callers |-> r[1]]
                /\ size' = [size EXCEPT ![c] = r[2]]
                /\ pc' = [pc EXCEPT ![c] = IF r[3] THEN "loop" ELSE "closure"]
    /\ iters' = [iters EXCEPT ![c] = @ + 1]
    /\ UNCHANGED <<bldvars, reg, nfa, xs, pos, result, nstep, nclos, ordvars, entry>>

\* One pass of the loop of epsilon_closure.
ClosurePass(c) ==
    /\ pc[c] = "closure"
    /\ IF ~InRange(nfa, states[c])
       THEN /\ pc' = [pc EXCEPT ![c] = "panic"]
            /\ UNCHANGED <<states, size>>
       ELSE LET r == closure_pass(nfa, states[c], size[c])
            IN  /\ states' = [states EXCEPT ![c] = r[1]]
                /\ size' = [size EXCEPT ![c] = r[2]]
                /\ pc' = [pc EXCEPT ![c] = IF r[3] THEN "loop" ELSE "closure"]
    /\ iters' = [iters EXCEPT ![c] = @ + 1]
    /\ UNCHANGED <<bldvars, reg, nfa, xs, pos, result, nstep, nclos, ordvars, entry>>

\* LoopStep without the return on an empty set: the loop goes on.
LoopStep_no_return(c) ==
    /\ pc[c] = "loop"
    /\ pos[c] < Len(xs[c])
    /\ pos' = [pos EXCEPT ![c] = @ + 1]
    /\ nstep' = [nstep EXCEPT ![c] = @ + 1]
    /\ IF ~InRange(nfa, states[c])
       THEN /\ pc' = [pc EXCEPT ![c] = "panic"]
            /\ UNCHANGED <<states, size, iters, nclos, result, entry>>
       ELSE LET stepped == step(nfa, states[c], xs[c][pos[c] + 1])
            IN  /\ states' = [states EXCEPT ![c] = stepped]
                /\ entry' = [entry EXCEPT ![c] = stepped]
                /\ size' = [size EXCEPT ![c] = Cardinality(stepped)]
                /\ iters' = [iters EXCEPT ![c] = 0]
                /\ nclos' = [nclos EXCEPT ![c] = @ + 1]
                /\ pc' = [pc EXCEPT ![c] = "closure"]
                /\ UNCHANGED result
    /\ UNCHANGED <<bldvars, reg, nfa, xs, ordvars>>

\* LoopStep that adds the stepped states to the working set, not replaces it.
LoopStep_keeps_old(c) ==
    /\ pc[c] = "loop"
    /\ pos[c] < Len(xs[c])
    /\ pos' = [pos EXCEPT ![c] = @ + 1]
    /\ nstep' = [nstep EXCEPT ![c] = @ + 1]
    /\ IF ~InRange(nfa, states[c])
       THEN /\ pc' = [pc EXCEPT ![c] = "panic"]
            /\ UNCHANGED <<states, size, iters, nclos, result, entry>>
       ELSE LET stepped == states[c] \cup step(nfa, states[c], xs[c][pos[c] + 1])
            IN  /\ states' = [states EXCEPT ![c] = stepped]
                /\ IF stepped = {}
                   THEN /\ result' = [result EXCEPT ![c] = FALSE]
                        /\ pc' = [pc EXCEPT ![c] = "done"]
                        /\ UNCHANGED <<size, iters, nclos, entry>>
                   ELSE /\ entry' = [entry EXCEPT ![c] = stepped]
                        /\ size' = [size EXCEPT ![c] = Cardinality(stepped)]
                        /\ iters' = [iters EXCEPT ![c] = 0]
                        /\ nclos' = [nclos EXCEPT ![c] = @ + 1]
                        /\ pc' = [pc EXCEPT ![c] = "closure"]
                        /\ UNCHANGED result
    /\ UNCHANGED <<bldvars, reg, nfa, xs, ordvars>>

\* One pass of the for loop of accepts, up to the entry of epsilon_closure.
LoopStep(c) ==
    /\ pc[c] = "loop"
    /\ pos[c] < Len(xs[c])
    /\ pos' = [pos EXCEPT ![c] = @ + 1]
    /\ nstep' = [nstep EXCEPT ![c] = @ + 1]
    /\ IF ~InRange(nfa, states[c])
       THEN /\ pc' = [pc EXCEPT ![c] = "panic"]
            /\ UNCHANGED <<states, size, iters, nclos, result, entry>>
       ELSE LET stepped == step(nfa, states[c], xs[c][pos[c] + 1])
            IN  /\ states' = [states EXCEPT ![c] = stepped]
                /\ IF stepped = {}
                   THEN /\ result' = [result EXCEPT ![c] = FALSE]
                        /\ pc' = [pc EXCEPT ![c] = "done"]
                        /\ UNCHANGED <<size, iters, nclos, entry>>
                   ELSE /\ entry' = [entry EXCEPT ![c] = stepped]
                        /\ size' = [size EXCEPT ![c] = Cardinality(stepped)]
                        /\ iters' = [iters EXCEPT ![c] = 0]
                        /\ nclos' = [nclos EXCEPT ![c] = @ + 1]
                        /\ pc' = [pc EXCEPT ![c] = "closure"]
                        /\ UNCHANGED result
    /\ UNCHANGED <<bldvars, reg, nfa, xs, ordvars>>

\* The end of accepts, once the for loop has taken every symbol.
Return(c) ==
    /\ pc[c] = "loop"
    /\ pos[c] = Len(xs[c])
    /\ result' = [result EXCEPT ![c] = nfa.final_idx \in states[c]]
    /\ pc' = [pc EXCEPT ![c] = "done"]
    /\ UNCHANGED <<bldvars, reg, nfa, xs, states, size, pos, iters, nstep, nclos, ordvars, entry>>

Next ==
    \E c \in Callers : Begin(c) \/ ClosurePass(c) \/ LoopStep(c) \/ Return(c)

Spec == Init /\ [][Next]_vars

SpecAssoc == InitAssoc /\ [][Next]_vars

SpecConc == InitConc /\ [][Next]_vars

\* ------------------------------------------- accepts, one HashSet visit a time
\* The same call of accepts by caller 1, with every iteration over a HashSet
\* taken one element at a time, in any order.

\* A call step(states, a) begins: nothing visited, nothing found.
CallStep(set, a) ==
    /\ todo' = set
    /\ acc' = {}
    /\ lbl' = a

\* accepts, up to the first call of step in its first epsilon_closure.
OrdBegin ==
    /\ pc[1] = "start"
    /\ states' = [states EXCEPT ![1] = {nfa.start_idx}]
    /\ size' = [size EXCEPT ![1] = 1]
    /\ iters' = [iters EXCEPT ![1] = 0]
    /\ nclos' = [nclos EXCEPT ![1] = @ + 1]
    /\ CallStep({nfa.start_idx}, None)
    /\ pc' = [pc EXCEPT ![1] = "cl_step"]
    /\ entry' = [entry EXCEPT ![1] = {nfa.start_idx}]
    /\ UNCHANGED <<bldvars, reg, nfa, xs, pos, result, nstep>>

\* OrdVisit that stops at the first state with a neighbour: one path only.
OrdVisit_first_hit ==
    /\ pc[1] \in {"cl_step", "sym_step"}
    /\ \E s \in todo :
          IF ~InRange(nfa, {s})
          THEN /\ pc' = [pc EXCEPT ![1] = "panic"]
               /\ UNCHANGED <<todo, acc>>
          ELSE LET found == VecSet(neighbours(nfa.nodes[s + 1], lbl))
               IN  /\ acc' = acc \cup found
                   /\ todo' = IF found = {} THEN todo \ {s} ELSE {}
                   /\ UNCHANGED pc
    /\ UNCHANGED <<bldvars, reg, nfa, xs, states, size, pos, result, iters, nstep, nclos, lbl, entry>>

\* One pass of the outer loop of step: some state not yet visited.
OrdVisit ==
    /\ pc[1] \in {"cl_step", "sym_step"}
    /\ \E s \in todo :
          IF ~InRange(nfa, {s})
          THEN /\ pc' = [pc EXCEPT ![1] = "panic"]
               /\ UNCHANGED <<todo, acc>>
          ELSE /\ acc' = acc \cup VecSet(neighbours(nfa.nodes[s + 1], lbl))
               /\ todo' = todo \ {s}
               /\ UNCHANGED pc
    /\ UNCHANGED <<bldvars, reg, nfa, xs, states, size, pos, result, iters, nstep, nclos, lbl, entry>>

\* epsilon_closure, from the return of step to the loop over new_nodes.
OrdClosureGot ==
    /\ pc[1] = "cl_step"
    /\ todo = {}
    /\ pc' = [pc EXCEPT ![1] = IF Cardinality(acc) = 0 THEN "loop" ELSE "cl_insert"]
    /\ iters' = [iters EXCEPT ![1] = @ + 1]
    /\ UNCHANGED <<bldvars, reg, nfa, xs, states, size, pos, result, nstep, nclos, ordvars, entry>>

\* One pass of the loop over new_nodes: some state not yet inserted.
OrdInsert ==
    /\ pc[1] = "cl_insert"
    /\ \E n \in acc :
          /\ states' = [states EXCEPT ![1] = @ \cup {n}]
          /\ acc' = acc \ {n}
    /\ UNCHANGED <<bldvars, reg, nfa, xs, pc, size, pos, result, iters, nstep, nclos, todo, lbl, entry>>

\* epsilon_closure, from the size test to the next call of step.
OrdClosureTest ==
    /\ pc[1] = "cl_insert"
    /\ acc = {}
    /\ IF Cardinality(states[1]) = size[1]
       THEN /\ pc' = [pc EXCEPT ![1] = "loop"]
            /\ UNCHANGED <<size, ordvars>>
       ELSE /\ size' = [size EXCEPT ![1] = Cardinality(states[1])]
            /\ CallStep(states[1], None)
            /\ pc' = [pc EXCEPT ![1] = "cl_step"]
    /\ UNCHANGED <<bldvars, reg, nfa, xs, states, pos, result, iters, nstep, nclos, entry>>

\* The for loop of accepts takes the next symbol and calls step.
OrdLoopStep ==
    /\ pc[1] = "loop"
    /\ pos[1] < Len(xs[1])
    /\ pos' = [pos EXCEPT ![1] = @ + 1]
    /\ nstep' = [nstep EXCEPT ![1] = @ + 1]
    /\ CallStep(states[1], xs[1][pos[1] + 1])
    /\ pc' = [pc EXCEPT ![1] = "sym_step"]
    /\ UNCHANGED <<bldvars, reg, nfa, xs, states, size, result, iters, nclos, entry>>

\* accepts, from the return of step to the first step of epsilon_closure.
OrdStepGot ==
    /\ pc[1] = "sym_step"
    /\ todo = {}
    /\ states' = [states EXCEPT ![1] = acc]
    /\ IF acc = {}
       THEN /\ result' = [result EXCEPT ![1] = FALSE]
            /\ pc' = [pc EXCEPT ![1] = "done"]
            /\ UNCHANGED <<size, iters, nclos, ordvars, entry>>
       ELSE /\ entry' = [entry EXCEPT ![1] = acc]
            /\ size' = [size EXCEPT ![1] = Cardinality(acc)]
            /\ iters' = [iters EXCEPT ![1] = 0]
            /\ nclos' = [nclos EXCEPT ![1] = @ + 1]
            /\ CallStep(acc, None)
            /\ pc' = [pc EXCEPT ![1] = "cl_step"]
            /\ UNCHANGED result
    /\ UNCHANGED <<bldvars, reg, nfa, xs, pos, nstep>>

NextOrd ==
    \/ OrdBegin
    \/ OrdVisit
    \/ OrdClosureGot
    \/ OrdInsert
    \/ OrdClosureTest
    \/ OrdLoopStep
    \/ OrdStepGot
    \/ Return(1)

SpecOrd == InitOrd /\ [][NextOrd]_vars

\* ------------------------------------------- from_regex, one call at a time
\* The recursion of from_regex run on a stack: work holds the frames, a frame
\* <<"compile", r>> is a call from_regex(r) not yet begun, <<"apply", r>> is
\* that call once its recursive calls are on the stack before it.

EmbedCall(sub, offset, final_trans) ==
    [sub |-> sub, offset |-> offset, final_trans |-> final_trans]

\* then_alloc that allocates one node too many.
then_alloc_extra(a, b) ==
    LET len == Len(a.nodes) + Len(b.nodes) + 3
        nodes == [k \in 1..len |-> Node_new(<<>>)]
        start_idx == 0
        final_idx == Len(nodes) - 1
    IN  [nodes |-> [[nodes EXCEPT ![start_idx + 1] = Node_new(<<<<None, 1>>>>)]
                       EXCEPT ![final_idx + 1] = Node_new(<<>>)],
         start_idx |-> start_idx,
         final_idx |-> final_idx]

\* then, up to its first call of embed.
then_alloc(a, b) ==
    LET len == Len(a.nodes) + Len(b.nodes) + 2
        nodes == [k \in 1..len |-> Node_new(<<>>)]
        start_idx == 0
        final_idx == Len(nodes) - 1
    IN  [nodes |-> [[nodes EXCEPT ![start_idx + 1] = Node_new(<<<<None, 1>>>>)]
                       EXCEPT ![final_idx + 1] = Node_new(<<>>)],
         start_idx |-> start_idx,
         final_idx |-> final_idx]

\* then_embeds with the accepting state of a wired one index short.
then_embeds_short(a, b, final_idx) ==
    <<EmbedCall(a, 1, <<Len(a.nodes)>>),
      EmbedCall(b, 1 + Len(a.nodes), <<final_idx>>)>>

then_embeds(a, b, final_idx) ==
    <<EmbedCall(a, 1, <<Len(a.nodes) + 1>>),
      EmbedCall(b, 1 + Len(a.nodes), <<final_idx>>)>>

\* or, up to its first call of embed.
or_alloc(a, b) ==
    LET len == Len(a.nodes) + Len(b.nodes) + 2
        nodes == [k \in 1..len |-> Node_new(<<>>)]
        start_idx == 0
        final_idx == Len(nodes) - 1
    IN  [nodes |-> [[nodes EXCEPT ![start_idx + 1] =
                            Node_new(<<<<None, 1>>, <<None, 1 + Len(a.nodes)>>>>)]
                       EXCEPT ![final_idx + 1] = Node_new(<<>>)],
         start_idx |-> start_idx,
         final_idx |-> final_idx]

\* or_embeds that gives the accepting state of a no e-step.
or_embeds_a_bare(a, b, final_idx) ==
    <<EmbedCall(a, 1, <<>>),
      EmbedCall(b, 1 + Len(a.nodes), <<final_idx>>)>>

or_embeds(a, b, final_idx) ==
    <<EmbedCall(a, 1, <<final_idx>>),
      EmbedCall(b, 1 + Len(a.nodes), <<final_idx>>)>>

\* star, up to its call of embed.
star_alloc(a) ==
    LET len == Len(a.nodes) + 2
        nodes == [k \in 1..len |-> Node_new(<<>>)]
        start_idx == 0
        final_idx == Len(nodes) - 1
    IN  [nodes |-> [[nodes EXCEPT ![start_idx + 1] =
                            Node_new(<<<<None, 1>>, <<None, final_idx>>>>)]
                       EXCEPT ![final_idx + 1] = Node_new(<<>>)],
         start_idx |-> start_idx,
         final_idx |-> final_idx]

\* star_embeds that loops back to the embedded start of a, index 1.
star_embeds_to_inner(a, final_idx) == <<EmbedCall(a, 1, <<final_idx, 1>>)>>

star_embeds(a, final_idx) == <<EmbedCall(a, 1, <<final_idx, 0>>)>>

InitBuild ==
    /\ reg \in RegexUpTo(BuildSize)
    /\ nfa = NoNFA
    /\ xs = [c \in Callers |-> <<>>]
    /\ pc = [c \in Callers |-> "idle"]
    /\ states = [c \in Callers |-> {}]
    /\ size = [c \in Callers |-> 0]
    /\ pos = [c \in Callers |-> 0]
    /\ result = [c \in Callers |-> FALSE]
    /\ iters = [c \in Callers |-> 0]
    /\ nstep = [c \in Callers |-> 0]
    /\ nclos = [c \in Callers |-> 0]
    /\ todo = {}
    /\ acc = {}
    /\ lbl = None
    /\ entry = [c \in Callers |-> {}]
    /\ work = <<<<"compile", reg>>>>
    /\ frags = <<>>
    /\ cur = NoCall
    /\ bnodes = <<>>
    /\ calls = <<>>
    /\ ret = NoReturn

Running(kind, tag) ==
    /\ cur.op = "none"
    /\ work # <<>>
    /\ Head(work)[1] = kind
    /\ Head(work)[2][1] = tag

\* from_regex(Empty): empty() returns.
CompileEmpty ==
    /\ Running("compile", "Empty")
    /\ frags' = Append(frags, empty)
    /\ ret' = [op |-> "empty", args |-> <<>>, out |-> empty]
    /\ work' = Tail(work)
    /\ UNCHANGED <<reg, nfa, accvars, cur, bnodes, calls>>

\* from_regex(Single(c)): single(c) returns.
CompileSingle ==
    /\ Running("compile", "Single")
    /\ LET out == single(Head(work)[2][2])
       IN  /\ frags' = Append(frags, out)
           /\ ret' = [op |-> "single", args |-> <<>>, out |-> out]
    /\ work' = Tail(work)
    /\ UNCHANGED <<reg, nfa, accvars, cur, bnodes, calls>>

\* from_regex(Or | Then | Star): the recursive calls come first.
Recurse ==
    /\ cur.op = "none"
    /\ work # <<>>
    /\ Head(work)[1] = "compile"
    /\ LET r == Head(work)[2]
       IN  /\ r[1] \in {"Or", "Then", "Star"}
           /\ work' = (IF r[1] = "Star"
                       THEN <<<<"compile", r[2]>>, <<"apply", r>>>>
                       ELSE <<<<"compile", r[2]>>, <<"compile", r[3]>>, <<"apply", r>>>>)
                      \o Tail(work)
    /\ UNCHANGED <<reg, nfa, accvars, frags, cur, bnodes, calls, ret>>

\* The operands nr and ns of the call: the last NFAs returned.
Operands(k) == SubSeq(frags, Len(frags) - k + 1, Len(frags))

Enter(op, args, alloc, embeds) ==
    /\ frags' = SubSeq(frags, 1, Len(frags) - Len(args))
    /\ cur' = [op |-> op, args |-> args,
               start_idx |-> alloc.start_idx, final_idx |-> alloc.final_idx]
    /\ bnodes' = alloc.nodes
    /\ calls' = embeds
    /\ UNCHANGED <<reg, nfa, accvars, work, ret>>

ThenBegin ==
    /\ Running("apply", "Then")
    /\ LET a == Operands(2)[1]
           b == Operands(2)[2]
           alloc == then_alloc(a, b)
       IN  Enter("then", <<a, b>>, alloc, then_embeds(a, b, alloc.final_idx))

OrBegin ==
    /\ Running("apply", "Or")
    /\ LET a == Operands(2)[1]
           b == Operands(2)[2]
           alloc == or_alloc(a, b)
       IN  Enter("or", <<a, b>>, alloc, or_embeds(a, b, alloc.final_idx))

StarBegin ==
    /\ Running("apply", "Star")
    /\ LET a == Operands(1)[1]
           alloc == star_alloc(a)
       IN  Enter("star", <<a>>, alloc, star_embeds(a, alloc.final_idx))

\* One call of embed; a write nodes[i + offset] past the end of nodes panics.
Embed ==
    /\ cur.op \in {"then", "or", "star"}
    /\ calls # <<>>
    /\ LET c == Head(calls)
       IN  IF c.offset + Len(c.sub.nodes) > Len(bnodes)
           THEN /\ cur' = [cur EXCEPT !.op = "panic"]
                /\ UNCHANGED <<bnodes, calls>>
           ELSE /\ bnodes' = embed(bnodes, c.sub, c.offset, c.final_trans)
                /\ calls' = Tail(calls)
                /\ UNCHANGED cur
    /\ UNCHANGED <<reg, nfa, accvars, work, frags, ret>>

\* then, or, star return the NFA they built.
Finish ==
    /\ cur.op \in {"then", "or", "star"}
    /\ calls = <<>>
    /\ LET out == [nodes |-> bnodes, start_idx |-> cur.start_idx,
                   final_idx |-> cur.final_idx]
       IN  /\ frags' = Append(frags, out)
           /\ ret' = [op |-> cur.op, args |-> cur.args, out |-> out]
    /\ cur' = NoCall
    /\ bnodes' = <<>>
    /\ work' = Tail(work)
    /\ UNCHANGED <<reg, nfa, accvars, calls>>

\* The outermost from_regex returns to its caller.
Compiled ==
    /\ work = <<>>
    /\ nfa = NoNFA
    /\ Len(frags) = 1
    /\ nfa' = frags[1]
    /\ UNCHANGED <<reg, accvars, bldvars>>

NextBuild ==
    \/ CompileEmpty
    \/ CompileSingle
    \/ Recurse
    \/ ThenBegin
    \/ OrBegin
    \/ StarBegin
    \/ Embed
    \/ Finish
    \/ Compiled

SpecBuild == InitBuild /\ [][NextBuild]_vars

\* Weak fairness of every step: a call of accepts that can run does run.
FairSpec == InitFair /\ [][Next]_vars /\ WF_vars(Next)

\* ------------------------------------------------- the language of a Regex
RECURSIVE InLang(_, _)
InLang(r, s) ==
    CASE r[1] = "Empty" -> s = <<>>
      [] r[1] = "Single" -> s = <<r[2]>>
      [] r[1] = "Or" -> InLang(r[2], s) \/ InLang(r[3], s)
      [] r[1] = "Then" ->
            \E i \in 0..Len(s) :
                InLang(r[2], SubSeq(s, 1, i)) /\ InLang(r[3], SubSeq(s, i + 1, Len(s)))
      [] r[1] = "Star" ->
            \/ s = <<>>
            \/ \E i \in 1..Len(s) :
                InLang(r[2], SubSeq(s, 1, i)) /\ InLang(r, SubSeq(s, i + 1, Len(s)))

RECURSIVE Nullable(_)
Nullable(r) ==
    CASE r[1] = "Empty" -> TRUE
      [] r[1] = "Single" -> FALSE
      [] r[1] = "Or" -> Nullable(r[2]) \/ Nullable(r[3])
      [] r[1] = "Then" -> Nullable(r[2]) /\ Nullable(r[3])
      [] r[1] = "Star" -> TRUE

Returned == pc[1] = "done"

\* -------------------------------------------------------------- properties
\* C1: the value accepts returns on the NFA compiled from a Regex is TRUE
\* exactly when the input belongs to the formal language of that Regex.
C1_AcceptsIffInLanguage == Returned => (result[1] <=> InLang(reg, xs[1]))

C1_Witness ==
    /\ Returned
    /\ reg = <<"Star", <<"Or", <<"Single", "a">>, <<"Single", "b">>>>>>
    /\ xs[1] = <<"a", "b", "a", "a">>
    /\ result[1]

\* C2: the NFA of Single(c) accepts [c] and rejects [], [c, c], every [c, d]
\* and every [d] with d # c.
C2_SingleAcceptsOnlyItsSymbol ==
    (Returned /\ reg[1] = "Single") =>
        LET c == reg[2]
            s == xs[1]
        IN  /\ s = <<c>> => result[1]
            /\ s = <<>> => ~result[1]
            /\ s = <<c, c>> => ~result[1]
            /\ (Len(s) = 2 /\ s[1] = c) => ~result[1]
            /\ (Len(s) = 1 /\ s[1] # c) => ~result[1]

C2_Witness ==
    /\ Returned
    /\ reg[1] = "Single"
    /\ xs[1] = <<reg[2]>>
    /\ result[1]

\* C3: on the empty input accepts returns TRUE exactly when the Regex is
\* nullable.
C3_EmptyInputIffNullable ==
    (Returned /\ xs[1] = <<>>) => (result[1] <=> Nullable(reg))

C3_Witness ==
    /\ Returned
    /\ xs[1] = <<>>
    /\ reg[1] = "Then"
    /\ reg[2][1] = "Star"
    /\ result[1]

\* C4: the NFA of p.star() accepts the empty input, and accepts s ++ s for
\* every s the NFA of p accepts.
C4_StarAcceptsDoubled ==
    (Returned /\ reg[1] = "Star") =>
        /\ xs[1] = <<>> => result[1]
        /\ \A s \in SeqsUpTo(MaxLen) :
              (xs[1] = s \o s /\ accepts(from_regex(reg[2]), s)) => result[1]

C4_Witness ==
    /\ Returned
    /\ reg[1] = "Star"
    /\ reg[2][1] = "Then"
    /\ Len(xs[1]) = 4
    /\ xs[1] = SubSeq(xs[1], 1, 2) \o SubSeq(xs[1], 1, 2)
    /\ accepts(from_regex(reg[2]), SubSeq(xs[1], 1, 2))
    /\ result[1]

\* C5: the NFAs of a.or(b) and of b.or(a) return the same value on every
\* input.
C5_OrCommutes ==
    (Returned /\ reg[1] = "Or") =>
        (result[1] <=> accepts(from_regex(Regex_or(reg[3], reg[2])), xs[1]))

C5_Witness ==
    /\ Returned
    /\ reg[1] = "Or"
    /\ result[1]
    /\ ~accepts(from_regex(reg[2]), xs[1])
    /\ Len(xs[1]) >= 2

\* C6: the NFAs of (a.then(b)).then(c) and of a.then(b.then(c)) return the
\* same value on every input.
C6_ThenAssociates ==
    (Returned /\ reg[1] = "Then" /\ reg[2][1] = "Then") =>
        (result[1] <=>
            accepts(from_regex(Regex_then(reg[2][2], Regex_then(reg[2][3], reg[3]))), xs[1]))

C6_Witness ==
    /\ Returned
    /\ reg[1] = "Then"
    /\ reg[2][1] = "Then"
    /\ Len(xs[1]) = 3
    /\ result[1]
    /\ from_regex(reg) #
          from_regex(Regex_then(reg[2][2], Regex_then(reg[2][3], reg[3])))

\* C7: once the step on a symbol yields the empty set, accepts has returned
\* FALSE, and it has made no step and no epsilon_closure for a later symbol:
\* it made one step per symbol taken and no epsilon_closure after the last.
C7_RejectShortCircuits ==
    /\ nstep[1] = pos[1]
    /\ nclos[1] <= pos[1] + 1
    /\ (pc[1] \notin {"idle", "start"} /\ states[1] = {}) =>
          /\ Returned
          /\ ~result[1]
          /\ nclos[1] = pos[1]
          /\ ~ENABLED (LoopStep(1) \/ ClosurePass(1))

C7_Witness ==
    /\ Returned
    /\ states[1] = {}
    /\ ~result[1]
    /\ pos[1] = 2
    /\ Len(xs[1]) = 4

\* C8: accepts ends and returns a boolean; no epsilon_closure makes more
\* passes of its loop than the NFA has nodes, it ends at a set closed under
\* e-steps, and every state looked up is an index of nodes.
C8_Safe ==
    \A c \in Callers :
        /\ pc[c] # "panic"
        /\ InRange(nfa, states[c])
        /\ iters[c] <= Len(nfa.nodes)
        /\ result[c] \in BOOLEAN
        /\ pc[c] = "loop" => step(nfa, states[c], None) \subseteq states[c]

C8_SimulationTotal == []C8_Safe /\ <>Returned

C8_Witness ==
    /\ Returned
    /\ reg[1] = "Star"
    /\ reg[2][1] = "Star"
    /\ Len(xs[1]) = 3
    /\ iters[1] >= 3
    /\ result[1]

\* C9: no step of accepts changes the NFA, and of two calls of accepts on
\* the same NFA, interleaved in any way, each returns what it returns alone.
C9_ResultsAlone ==
    \A c \in Callers : pc[c] = "done" => (result[c] <=> accepts(from_regex(reg), xs[c]))

C9_AcceptsKeepsGraph == [][nfa' = nfa]_vars /\ []C9_ResultsAlone

C9_Witness ==
    /\ pc[1] = "done"
    /\ pc[2] = "done"
    /\ reg[1] = "Star"
    /\ xs[1] = <<"a", "a">>
    /\ xs[2] = <<"a", "b">>
    /\ result[1]
    /\ ~result[2]
    /\ nfa = from_regex(reg)

\* C10: whatever order step visits the working set in and whatever order
\* epsilon_closure inserts the new states in, accepts returns one and the
\* same value for an NFA and an input.
C10_ResultIndependentOfOrder ==
    /\ Returned => (result[1] <=> accepts(nfa, xs[1]))
    /\ pc[1] = "loop" =>
          states[1] = accepts_states(nfa, SubSeq(xs[1], 1, pos[1]))

C10_Witness ==
    /\ Returned
    /\ reg[1] = "Or"
    /\ xs[1] = <<"b">>
    /\ Cardinality(states[1]) >= 2
    /\ result[1]

\* ------------------------------------------------ properties of the graphs
\* The stepwise from_regex returns what the recursive from_regex returns.
FromRegexAgrees == nfa # NoNFA => nfa = from_regex(reg)

\* Every NFA a constructor has returned and that is still held somewhere.
BuiltNFAs ==
    VecSet(frags)
        \cup (IF ret.op = "none" THEN {} ELSE {ret.out} \cup VecSet(ret.args))
        \cup (IF nfa = NoNFA THEN {} ELSE {nfa})

Indices(n) == 0..(Len(n.nodes) - 1)

Transitions(n, i) == n.nodes[i + 1].transitions

\* C11: in every NFA that empty, single, then, or, star or from_regex has
\* returned, every transition target, start_idx and final_idx are indices of
\* the nodes of that NFA.
C11_IndicesValid ==
    /\ cur.op # "panic"
    /\ \A n \in BuiltNFAs :
          /\ n.start_idx \in Indices(n)
          /\ n.final_idx \in Indices(n)
          /\ \A i \in Indices(n) : VecSet(TargetsOf(Transitions(n, i))) \subseteq Indices(n)

C11_Witness ==
    /\ nfa # NoNFA
    /\ reg[1] = "Star"
    /\ reg[2][1] = "Then"
    /\ Len(nfa.nodes) = 10

\* Where a combinator embeds its k-th operand.
OffsetOf(r, k) == IF k = 1 THEN 1 ELSE 1 + Len(r.args[1].nodes)

\* C12: every NFA returned has one start index and one accepting index, and
\* the node at final_idx is the one node without transitions; the copy of an
\* operand's accepting node in the graph of then, or, star has transitions.
C12_OnlyAcceptIsBare ==
    /\ \A n \in BuiltNFAs :
          /\ n.start_idx # n.final_idx
          /\ \A i \in Indices(n) : (Transitions(n, i) = <<>>) <=> (i = n.final_idx)
    /\ \A k \in 1..Len(ret.args) :
          /\ Transitions(ret.args[k], ret.args[k].final_idx) = <<>>
          /\ Transitions(ret.out, ret.args[k].final_idx + OffsetOf(ret, k)) # <<>>

C12_Witness ==
    /\ ret.op = "or"
    /\ Len(ret.args[1].nodes) >= 4
    /\ Len(ret.args[2].nodes) >= 4

\* The transitions that the graph returned gave the copy of the accepting node
\* of its k-th operand.
AddedToAccept(r, k) == Transitions(r.out, r.args[k].final_idx + OffsetOf(r, k))

\* C13, as stated: the graph of star has |A| + 2 nodes, its start has e-steps
\* to the embedded start of A and to the new accept, and the embedded accept
\* of A has e-steps to the new accept and to the embedded start of A.
C13_LoopToEmbeddedStart ==
    ret.op = "star" =>
        LET A == ret.args[1]
            out == ret.out
        IN  /\ Len(out.nodes) = Len(A.nodes) + 2
            /\ Transitions(out, out.start_idx) =
                  <<<<None, A.start_idx + 1>>, <<None, out.final_idx>>>>
            /\ <<None, out.final_idx>> \in VecSet(AddedToAccept(ret, 1))
            /\ <<None, A.start_idx + 1>> \in VecSet(AddedToAccept(ret, 1))

\* C13, as amended: the same, but the embedded accept of A has its e-steps to
\* the new accept and to the new start (index 0), not to the embedded start.
C13_LoopToNewStart ==
    ret.op = "star" =>
        LET A == ret.args[1]
            out == ret.out
        IN  /\ Len(out.nodes) = Len(A.nodes) + 2
            /\ Transitions(out, out.start_idx) =
                  <<<<None, A.start_idx + 1>>, <<None, out.final_idx>>>>
            /\ AddedToAccept(ret, 1) = <<<<None, out.final_idx>>, <<None, out.start_idx>>>>

C13_Witness ==
    /\ ret.op = "star"
    /\ Len(ret.args[1].nodes) >= 6
    /\ AddedToAccept(ret, 1)[2] = <<None, 0>>

\* C14: the graph of then has |A| + |B| + 2 nodes, its start has one e-step,
\* to the embedded start of A; the embedded accept of A has one e-step, to the
\* embedded start of B; the embedded accept of B has one, to the new accept.
C14_ThenShape ==
    ret.op = "then" =>
        LET A == ret.args[1]
            B == ret.args[2]
            out == ret.out
        IN  /\ Len(out.nodes) = Len(A.nodes) + Len(B.nodes) + 2
            /\ Transitions(out, out.start_idx) = <<<<None, A.start_idx + 1>>>>
            /\ AddedToAccept(ret, 1) = <<<<None, B.start_idx + OffsetOf(ret, 2)>>>>
            /\ AddedToAccept(ret, 2) = <<<<None, out.final_idx>>>>
            /\ OffsetOf(ret, 2) = 1 + Len(A.nodes)

C14_Witness ==
    /\ ret.op = "then"
    /\ Len(ret.args[1].nodes) >= 4
    /\ Len(ret.args[2].nodes) >= 4

\* What a call embed(before, sub, offset, final_trans) must leave in nodes.
EmbedPost(before, c, after) ==
    /\ Len(after) = Len(before)
    /\ \A i \in Indices(c.sub) :
          LET orig == Transitions(c.sub, i)
              copy == after[i + c.offset + 1].transitions
              extra == IF i = c.sub.final_idx THEN Len(c.final_trans) ELSE 0
          IN  /\ Len(copy) = Len(orig) + extra
              /\ \A j \in 1..Len(orig) : copy[j] = <<orig[j][1], orig[j][2] + c.offset>>
              /\ \A j \in 1..extra : copy[Len(orig) + j] = <<None, c.final_trans[j]>>
    /\ \A k \in 1..Len(before) :
          (k - 1 < c.offset \/ k - 1 >= c.offset + Len(c.sub.nodes)) => after[k] = before[k]

\* C15: a call of embed writes at i + offset the copy of node i of sub with
\* its targets raised by offset and its labels kept, appends the e-steps to
\* final_trans, as given, to the copy of the accepting node only, and changes
\* neither sub nor any other node.
C15_EmbedFrame ==
    [][(cur.op \in {"then", "or", "star"} /\ calls # <<>>) =>
          /\ EmbedPost(bnodes, Head(calls), bnodes')
          /\ cur' = cur
          /\ calls' = Tail(calls)]_vars

C15_Witness ==
    /\ cur.op = "then"
    /\ Len(calls) = 0
    /\ Len(cur.args[1].nodes) >= 4
    /\ Len(cur.args[2].nodes) >= 4
    /\ bnodes[Len(bnodes) - 1].transitions # <<>>

\* ------------------------------------------------------- paths in a graph
\* The states one transition with a label of labels away from a state of set.
OneStep(n, set, labels) ==
    {t[2] : t \in {u \in UNION {VecSet(Transitions(n, i)) : i \in set} : u[1] \in labels}}

\* The states at most k such transitions away.
RECURSIVE Within(_, _, _, _)
Within(n, set, labels, k) ==
    IF k = 0 THEN set
    ELSE LET near == Within(n, set, labels, k - 1)
         IN  near \cup OneStep(n, near, labels)

\* A path that visits no state twice has fewer transitions than n has nodes.
EpsReach(n, set) == Within(n, set, {None}, Len(n.nodes))

AnyReach(n, set) == Within(n, set, Alphabet \cup {None}, Len(n.nodes))

\* The states at the end of a path from start_idx whose labels spell w.
RECURSIVE PathReach(_, _)
PathReach(n, w) ==
    IF w = <<>> THEN EpsReach(n, {n.start_idx})
    ELSE EpsReach(n, OneStep(n, PathReach(n, SubSeq(w, 1, Len(w) - 1)), {w[Len(w)]}))

\* C16: while epsilon_closure runs the set holds the states it was called
\* with and only states an e-path away from them; when it has returned, by
\* either break, the set is exactly the states an e-path of any length,
\* zero included, away from the states it was called with.
C16_ClosureIsLeastFixedPoint ==
    /\ pc[1] = "closure" =>
          /\ entry[1] \subseteq states[1]
          /\ states[1] \subseteq EpsReach(nfa, entry[1])
    /\ pc[1] = "loop" => states[1] = EpsReach(nfa, entry[1])

C16_Witness ==
    /\ pc[1] = "loop"
    /\ pos[1] >= 1
    /\ iters[1] >= 3
    /\ Cardinality(states[1]) >= Cardinality(entry[1]) + 3

\* C17: at the head of the loop of accepts the working set is exactly the
\* set of states at the end of a path from start_idx that spells the symbols
\* taken so far, and it is not empty; accepts has returned FALSE before the
\* end of the input exactly when that set is empty.
C17_WorkingSetIsPathSet ==
    LET taken == PathReach(nfa, SubSeq(xs[1], 1, pos[1]))
    IN  /\ pc[1] = "loop" => (states[1] = taken /\ taken # {})
        /\ pc[1] = "done" =>
              /\ states[1] = taken
              /\ taken = {} => ~result[1]
              /\ taken # {} => (pos[1] = Len(xs[1]) /\ (result[1] <=> nfa.final_idx \in taken))

C17_Witness ==
    /\ pc[1] = "loop"
    /\ pos[1] = 3
    /\ Len(xs[1]) = 4
    /\ Cardinality(states[1]) >= 4

\* C18: every NFA returned has start_idx = 0 and final_idx = nodes.len() - 1,
\* so the targets 1, 1 + a.nodes.len() and a.nodes.len() + 1 written by then,
\* or, star are the embedded start states of the operands.
C18_StartFirstAcceptLast ==
    /\ \A n \in BuiltNFAs : n.start_idx = 0 /\ n.final_idx = Len(n.nodes) - 1
    /\ ret.op \in {"then", "or", "star"} =>
          Transitions(ret.out, 0)[1] = <<None, ret.args[1].start_idx + OffsetOf(ret, 1)>>
    /\ ret.op = "or" =>
          Transitions(ret.out, 0)[2] = <<None, ret.args[2].start_idx + OffsetOf(ret, 2)>>
    /\ ret.op = "then" =>
          AddedToAccept(ret, 1)[1] = <<None, ret.args[2].start_idx + OffsetOf(ret, 2)>>

C18_Witness ==
    /\ ret.op = "or"
    /\ Len(ret.args[1].nodes) = 6
    /\ Len(ret.args[2].nodes) = 2
    /\ Transitions(ret.out, 0)[2][2] = 7

RECURSIVE Constructors(_)
Constructors(r) ==
    CASE r[1] \in {"Empty", "Single"} -> 1
      [] r[1] = "Star" -> 1 + Constructors(r[2])
      [] r[1] \in {"Or", "Then"} -> 1 + Constructors(r[2]) + Constructors(r[3])

\* C19: in every NFA returned a node has at most two transitions, and only
\* one if it has a transition with a symbol; every node is reachable from
\* start_idx and final_idx from every node; from_regex returns twice as many
\* nodes as the Regex has constructors.
C19_ThompsonShape ==
    /\ \A n \in BuiltNFAs :
          /\ \A i \in Indices(n) :
                /\ Len(Transitions(n, i)) <= 2
                /\ (\E t \in VecSet(Transitions(n, i)) : t[1] # None) =>
                      Len(Transitions(n, i)) = 1
                /\ n.final_idx \in AnyReach(n, {i})
          /\ AnyReach(n, {n.start_idx}) = Indices(n)
    /\ nfa # NoNFA => Len(nfa.nodes) = 2 * Constructors(reg)

C19_Witness ==
    /\ nfa # NoNFA
    /\ Len(nfa.nodes) = 10
    /\ reg[1] = "Then"
    /\ reg[3][1] = "Star"

====
